---- MODULE Spec2Model ----
(***************************************************************************)
(* A model of SystemGuardian.py: the retry ledger kept by handle_warning,  *)
(* the dependency cascade of handle_error, the registry-issue handlers and *)
(* the priority queue of isolation requests drained by                     *)
(* process_isolation_queue.                                                *)
(*                                                                         *)
(* The three worker threads that touch the isolation queue (process_events,*)
(* process_registry_issues, process_isolation_queue) interleave at the     *)
(* queue's put and get, which queue.PriorityQueue runs under its mutex,    *)
(* and a thread can be overtaken wherever it waits for a call to return:   *)
(* process_events inside attempt_repair and between the puts of            *)
(* handle_error, process_isolation_queue between its get and the end of    *)
(* the adapter, monitor_event_logs between its loop test, its read of the  *)
(* log and each put. retry_registry is touched by the process_events       *)
(* thread only.                                                            *)
(*                                                                         *)
(* The service around them: SvcDoRun starts five daemon threads            *)
(* (monitor_event_logs, monitor_registry, process_events,                  *)
(* process_registry_issues, process_isolation_queue), each a loop on       *)
(* self.is_running, and waits on hWaitStop until SvcStop clears the flag.  *)
(***************************************************************************)
EXTENDS Integers, Sequences, FiniteSets, TLC

VARIABLES
    now,                    \* datetime.now(), in clock ticks
    retry_registry,         \* self.retry_registry: component -> [count, last_attempt]
    isolation_queue,        \* self.isolation_queue.queue: the heap list of (priority, item)
    component_dependencies, \* self.component_dependencies: component -> list of components
    cascade,                \* process_events thread inside handle_error's for loop
    repairing,              \* process_events thread inside handle_warning's call of
                            \* attempt_repair: the event and its current_time
    window_start,           \* history: component -> time of the first failed attempt
                            \* since its count was last 0
    last,                   \* what the most recent handler step did (calls, puts, result)
    is_running,             \* self.is_running
    hWaitStop,              \* the auto-reset event self.hWaitStop: signalled or not
    pc,                     \* where SvcDoRun and each of its five threads stands
    event_log,              \* the records ReadEventLog returns from the System log
    event_queue,            \* self.event_queue.queue
    registry_queue,         \* self.registry_queue.queue
    isolating,              \* the request process_isolation_queue got and is isolating
    handling,               \* the issue process_registry_issues got and is handling
    processing,             \* the event process_events got and has not dispatched yet
    reading                 \* monitor_event_logs inside its for loop: the records
                            \* ReadEventLog returned that it has not visited yet

\* The state of the service's threads and of the queues that feed them.
service_vars ==
    <<is_running, hWaitStop, pc, event_log, event_queue, registry_queue, isolating,
      handling, processing, reading>>

vars ==
    <<now, retry_registry, isolation_queue, component_dependencies, cascade,
      repairing, window_start, last, service_vars>>

----------------------------------------------------------------------------
(* Bounds of the model *)

\* Clock ticks per hour: the granularity of datetime.now() in the model.
TicksPerHour == 2
\* The clock stops advancing at MaxTime.
MaxTime == 4

\* Ticks of the clock while the service and its threads run
ServiceTime == 1
\* Capacity the model gives the (unbounded) isolation queue in Spec and SpecRetry.
MaxQueue == 3
\* Capacity the model gives the isolation queue in SpecQueue.
MaxHeap == 6
\* Longest dependency list a component has in the maps of SpecCascade.
MaxDeps == 2
\* Longest message, in words, of the event records of SpecClassify.
MaxWords == 2
\* Length at which the model stops the (unbounded) event queue from growing.
MaxEvents == 2
\* Length at which the model stops the (unbounded) registry queue from growing.
MaxIssues == 1

(* Program constants *)

\* timedelta(hours=1)
RetryWindowHours == 1
\* if self.retry_registry[component]['count'] < 3
MaxRetries == 3
\* priority of a request enqueued by handle_error / handle_missing_*
PriorityHighest == 0
\* priority of a request enqueued by handle_warning
PriorityMedium == 1

RetryWindow == RetryWindowHours * TicksPerHour

----------------------------------------------------------------------------
(* Component ids, as extract_component builds them: "<kind>:<name>" or "unknown" *)

\* The ids of the model: "service:a", "driver:b", "dcom:c" and "unknown", and
\* "service:b" and "driver:a", which only extract_component produces.

\* component.startswith(prefix), tabulated over those ids
startswith(component, prefix) ==
    <<component, prefix>> \in
        {<<"service:a", "service:">>, <<"driver:b", "driver:">>, <<"dcom:c", "dcom:">>,
         <<"service:b", "service:">>, <<"driver:a", "driver:">>}

\* f"service:{service_name}" / f"driver:{issue['service']}", tabulated
component_id(prefix, name) ==
    CASE prefix = "service:" /\ name = "a" -> "service:a"
      [] prefix = "driver:" /\ name = "b" -> "driver:b"
      [] prefix = "service:" /\ name = "b" -> "service:b"
      [] prefix = "driver:" /\ name = "a" -> "driver:a"
      [] prefix = "dcom:" /\ name = "c" -> "dcom:c"
      [] OTHER -> "unknown"

\* The dict process_event builds, restricted to the keys the handlers read.
Event(type, component, message) ==
    [event_type |-> type, component |-> component, message |-> message]

----------------------------------------------------------------------------
(* queue.PriorityQueue over (priority, dict) tuples: heapq on a list *)

\* The dict handle_warning / handle_error / handle_missing_* put on the queue.
Item(component, reason, action) ==
    [component |-> component, reason |-> reason, action |-> action]

\* tuple.__lt__ on (priority, dict): the priorities decide when they differ;
\* equal priorities and equal dicts make the tuples equal (not less); equal
\* priorities and different dicts compare the dicts, which raises TypeError.
TupleLt(a, b) ==
    IF a[1] # b[1] THEN (IF a[1] < b[1] THEN "true" ELSE "false")
    ELSE IF a[2] = b[2] THEN "false"
    ELSE "TypeError"

\* positions are heapq's 0-based positions
Swap(heap, i, j) == [heap EXCEPT ![i + 1] = heap[j + 1], ![j + 1] = heap[i + 1]]

\* _heapq siftdown: move heap[pos] towards the root while it is less than its
\* parent. A comparison that raises leaves the list as it is at that moment.
RECURSIVE siftdown(_, _, _)
siftdown(heap, startpos, pos) ==
    IF pos > startpos
    THEN LET parentpos == (pos - 1) \div 2
             cmp == TupleLt(heap[pos + 1], heap[parentpos + 1])
         IN  IF cmp = "TypeError" THEN [heap |-> heap, ok |-> FALSE]
             ELSE IF cmp = "false" THEN [heap |-> heap, ok |-> TRUE]
             ELSE siftdown(Swap(heap, pos, parentpos), startpos, parentpos)
    ELSE [heap |-> heap, ok |-> TRUE]

\* _heapq siftup: bubble the smaller child up until a leaf, then siftdown.
RECURSIVE siftup(_, _, _)
siftup(heap, startpos, pos) ==
    LET endpos == Len(heap)
        limit == endpos \div 2
    IN  IF pos < limit
        THEN LET left == 2 * pos + 1
                 cmp == IF left + 1 < endpos
                        THEN TupleLt(heap[left + 1], heap[left + 2])
                        ELSE "true"
                 childpos == IF cmp = "true" THEN left ELSE left + 1
             IN  IF cmp = "TypeError" THEN [heap |-> heap, ok |-> FALSE]
                 ELSE siftup(Swap(heap, childpos, pos), startpos, childpos)
        ELSE siftdown(heap, startpos, pos)

\* PriorityQueue.put -> heapq.heappush: append, then siftdown. When the
\* comparison raises, put raises and the item stays in the list.
heappush(heap, entry) == siftdown(Append(heap, entry), 0, Len(heap))

\* PriorityQueue.get -> heapq.heappop on a non-empty list: take the last
\* entry off, put it at the root, siftup, return the old root. When the
\* comparison raises, get raises and the old root is returned to nobody.
heappop(heap) ==
    LET lastelt == heap[Len(heap)]
        rest == SubSeq(heap, 1, Len(heap) - 1)
    IN  IF rest = <<>>
        THEN [heap |-> <<>>, ok |-> TRUE, item |-> <<lastelt>>]
        ELSE LET r == siftup([rest EXCEPT ![1] = lastelt], 0, 0)
             IN  [heap |-> r.heap, ok |-> r.ok,
                  item |-> IF r.ok THEN <<rest[1]>> ELSE <<>>]

----------------------------------------------------------------------------
(* get_affected_components: breadth-first walk over component_dependencies *)

\* self.component_dependencies.get(current, [])
deps_get(deps, current) == IF current \in DOMAIN deps THEN deps[current] ELSE <<>>

RECURSIVE affected_walk(_, _, _)
affected_walk(deps, queue, affected) ==
    IF queue = <<>> THEN affected
    ELSE LET current == Head(queue)
             affected1 == affected \cup {current}
             more == SelectSeq(deps_get(deps, current), LAMBDA dep : dep \notin affected1)
         IN  affected_walk(deps, Tail(queue) \o more, affected1)

get_affected_componentsNoFollow(deps, component) ==
    {component} \cup {deps_get(deps, component)[i] : i \in DOMAIN deps_get(deps, component)}

get_affected_components(deps, component) == affected_walk(deps, <<component>>, {})

----------------------------------------------------------------------------
(* Event records: is_relevant_event, process_event, extract_component,     *)
(* classify_event. A message is the sequence of its words.                 *)

\* The words of the model's messages. "\"a\"", "\"b\"" and "{c}" are names as
\* the System log quotes them.
Words ==
    {"DCOM", "CLSID", "clsid", "Driver", "drivers", "service", "Service", "disk"}

\* word.lower(), tabulated over the words of the model
lower(word) ==
    CASE word = "DCOM" -> "dcom"
      [] word = "CLSID" -> "clsid"
      [] word = "Driver" -> "driver"
      [] word = "Service" -> "service"
      [] OTHER -> word

\* message.lower()
message_lower(message) == [i \in DOMAIN message |-> lower(message[i])]

\* "needle in word" for a needle that is one word long: the word itself, or a
\* longer word of the model that holds it.
substring(needle, word) ==
    \/ needle = word
    \/ <<needle, word>> \in {<<"driver", "drivers">>}

\* needle in message
contains(needle, message) ==
    \E i \in DOMAIN message : substring(needle, message[i])

\* self.event_patterns as load_configurations defaults it
event_patterns ==
    [warnings |-> [sources |-> {"Service Control Manager", "Disk", "Netwtw14"},
                   event_ids |-> {1001, 6062, 219}],
     errors   |-> [sources |-> {"DCOM", "DriverFrameworks-UserMode",
                                "Service Control Manager"},
                   event_ids |-> {10005, 10010, 7000, 7009}]]

is_relevant_event(event) ==
    IF event.EventType = "warning"
    THEN \/ event.SourceName \in event_patterns.warnings.sources
         \/ event.EventID \in event_patterns.warnings.event_ids
    ELSE IF event.EventType = "error"
    THEN \/ event.SourceName \in event_patterns.errors.sources
         \/ event.EventID \in event_patterns.errors.event_ids
    ELSE FALSE

\* The name a pattern captures from the word that follows its keyword.
quoted(word) ==
    CASE word = "\"a\"" -> "a"
      [] word = "\"b\"" -> "b"
      [] OTHER -> ""

braced(word) ==
    CASE word = "{c}" -> "c"
      [] OTHER -> ""

\* The name a keyword's pattern captures from the word after the keyword:
\* "(.+?)" in quotes for service and driver, {([A-F0-9-]+)} in braces for CLSID.
captured(keyword, word) ==
    IF keyword = "clsid" THEN braced(word) ELSE quoted(word)

\* re.search(pattern, message, re.IGNORECASE): the leftmost keyword that is
\* followed by a name, or 0.
search(keyword, message) ==
    LET matches == {i \in 1..(Len(message) - 1) :
                        /\ lower(message[i]) = keyword
                        /\ captured(keyword, message[i + 1]) # ""}
    IN  IF matches = {} THEN 0
        ELSE CHOOSE i \in matches : \A j \in matches : i <= j

\* The patterns are tried in the order service, driver, dcom.
extract_component(message) ==
    IF search("service", message) # 0
    THEN component_id("service:",
                      captured("service", message[search("service", message) + 1]))
    ELSE IF search("driver", message) # 0
    THEN component_id("driver:",
                      captured("driver", message[search("driver", message) + 1]))
    ELSE IF search("clsid", message) # 0
    THEN component_id("dcom:",
                      captured("clsid", message[search("clsid", message) + 1]))
    ELSE "unknown"

\* The driver rule tried before the DCOM rule.
classify_eventDriverFirst(event, message) ==
    IF event.EventType = "error"
    THEN IF contains("driver", message_lower(message)) THEN "critical_driver"
         ELSE IF \E err \in {"DCOM", "CLSID"} : contains(err, message)
         THEN "critical_com"
         ELSE "system_error"
    ELSE IF contains("service", message_lower(message)) THEN "service_warning"
         ELSE "hardware_warning"

classify_event(event, message) ==
    IF event.EventType = "error"
    THEN IF \E err \in {"DCOM", "CLSID"} : contains(err, message)
         THEN "critical_com"
         ELSE IF contains("driver", message_lower(message)) THEN "critical_driver"
         ELSE "system_error"
    ELSE IF contains("service", message_lower(message)) THEN "service_warning"
         ELSE "hardware_warning"

\* The dict process_event builds (the timestamp left out).
process_event(event) ==
    [source |-> event.SourceName, event_id |-> event.EventID,
     event_type |-> event.EventType, message |-> event.message,
     component |-> extract_component(event.message),
     category |-> classify_event(event, event.message)]

\* A message from which extract_component derives the component.
Message(component) ==
    CASE component = "service:a" -> <<"service", "\"a\"">>
      [] component = "driver:b" -> <<"driver", "\"b\"">>
      [] component = "dcom:c" -> <<"CLSID", "{c}">>
      [] OTHER -> <<"disk">>

\* A record of the System log.
EventLogRecord(type, source, id, message) ==
    [EventType |-> type, SourceName |-> source, EventID |-> id, message |-> message]

----------------------------------------------------------------------------
(* What a handler step did: the calls it made, in order, and their results *)

Step(op, component, repair, put, raised, got, calls) ==
    [op |-> op, component |-> component, repair |-> repair, put |-> put,
     raised |-> raised, got |-> got, calls |-> calls]

NoStep == Step("none", "", "none", <<>>, FALSE, <<>>, <<>>)

\* The process_events thread is between events (not inside handle_error's loop).
\* While it is inside, cascade holds the event, the affected set, the components
\* still to visit, those already put, and the calls made for the event so far.
NoCascade ==
    [origin |-> "", message |-> <<>>, affected |-> {}, todo |-> <<>>, done |-> <<>>,
     raised |-> FALSE, calls |-> <<>>]

----------------------------------------------------------------------------
(* handle_warning *)

RetryRecord(count, last_attempt) == [count |-> count, last_attempt |-> last_attempt]

\* "Reset if last attempt was over 1 hour ago"
window_elapsedAtOrAfter(current_time, last_attempt) ==
    current_time - last_attempt >= RetryWindow

window_elapsed(current_time, last_attempt) ==
    current_time - last_attempt > RetryWindow

\* Every warning that finds a record inside its window stamps it.
update_retry_registryRestamp(registry, component, current_time) ==
    IF component \notin DOMAIN registry
    THEN (component :> RetryRecord(0, current_time)) @@ registry
    ELSE IF window_elapsed(current_time, registry[component].last_attempt)
         THEN [registry EXCEPT ![component] = RetryRecord(0, current_time)]
         ELSE [registry EXCEPT ![component] = RetryRecord(@.count, current_time)]

\* "Update retry registry": create the record, or reset it when the window elapsed.
update_retry_registry(registry, component, current_time) ==
    IF component \notin DOMAIN registry
    THEN (component :> RetryRecord(0, current_time)) @@ registry
    ELSE IF window_elapsed(current_time, registry[component].last_attempt)
         THEN [registry EXCEPT ![component] = RetryRecord(0, current_time)]
         ELSE registry

\* if self.retry_registry[component]['count'] < 3
attempts_remainOffByOne(record) == record.count <= MaxRetries

attempts_remain(record) == record.count < MaxRetries

\* What attempt_repair returns, whether an exception was raised (and logged)
\* on the way, and what validate_service_registry put on the registry queue.
Attempt(result, raised, put) == [result |-> result, raised |-> raised, put |-> put]

\* The issue validate_service_registry puts when the ImagePath of the service
\* is not on disk.
missing_binary(service_name) ==
    [type |-> "missing_binary", service |-> service_name, path |-> "p"]

\* repair_service: RestartService raises (False); or it returns and then
\* validate_service_registry finds the binary, puts a missing_binary issue, or
\* raises and logs its own exception: True in all three.
repair_service(service_name) ==
    {Attempt(FALSE, TRUE, <<>>),
     Attempt(TRUE, FALSE, <<>>),
     Attempt(TRUE, FALSE, <<missing_binary(service_name)>>),
     Attempt(TRUE, TRUE, <<>>)}

\* repair_driver: no backup in the driver store (False), pnputil run (True),
\* or an exception (False).
repair_driver(driver_name) ==
    {Attempt(FALSE, FALSE, <<>>), Attempt(TRUE, FALSE, <<>>), Attempt(FALSE, TRUE, <<>>)}

\* repair_dcom: regsvr32 run (True), also after secure_registry_key has logged
\* an exception of its own, or an exception (False).
repair_dcom(clsid) ==
    {Attempt(TRUE, FALSE, <<>>), Attempt(TRUE, TRUE, <<>>), Attempt(FALSE, TRUE, <<>>)}

\* component.split(':')[1]
split_name(component) ==
    CHOOSE name \in {"a", "b", "c"} :
        \E prefix \in {"service:", "driver:", "dcom:"} :
            component = component_id(prefix, name)

\* attempt_repair: the repair adapter of the component's kind; any other id
\* returns False.
attempt_repair(component) ==
    IF startswith(component, "service:") THEN repair_service(split_name(component))
    ELSE IF startswith(component, "driver:") THEN repair_driver(split_name(component))
    ELSE IF startswith(component, "dcom:") THEN repair_dcom(split_name(component))
    ELSE {Attempt(FALSE, FALSE, <<>>)}

\* A failure is counted and the stamp is left as it was.
record_attemptUnstamped(registry, component, current_time, repaired) ==
    IF repaired
    THEN registry
    ELSE [registry EXCEPT ![component] =
              RetryRecord(@.count + 1, @.last_attempt)]

\* The registry after the repair attempt: a success returns at once, a failure
\* counts the attempt and stamps it.
record_attempt(registry, component, current_time, repaired) ==
    IF repaired
    THEN registry
    ELSE [registry EXCEPT ![component] =
              RetryRecord(@.count + 1, current_time)]

\* The tuple handle_warning puts on the isolation queue.
warning_requestHighest(event) ==
    <<PriorityHighest,
      Item(event.component,
           <<"Max retries exceeded for warnings", event.message>>,
           "isolate")>>

warning_request(event) ==
    <<PriorityMedium,
      Item(event.component,
           <<"Max retries exceeded for warnings", event.message>>,
           "isolate")>>

\* The process_events thread is not inside attempt_repair.
NoRepair == <<>>

\* handle_warning up to its call of attempt_repair (lines 188-206), or to its
\* end when the budget is exhausted (lines 188-205, 211-219): the record is
\* created or reset, and then the repair is begun or the request is put.
handle_warning(event, capacity) ==
    LET component == event.component
        current_time == now
        registry == update_retry_registry(retry_registry, component, current_time)
    IN  /\ retry_registry' = registry
        /\ UNCHANGED window_start
        /\ IF attempts_remain(registry[component])
           THEN /\ repairing' = <<[event |-> event, current_time |-> current_time]>>
                /\ last' = Step("handle_warning", component, "pending", <<>>, FALSE,
                                <<>>, <<"attempt_repair">>)
                /\ UNCHANGED isolation_queue
           ELSE LET pushed == heappush(isolation_queue, warning_request(event))
                IN  /\ Len(isolation_queue) < capacity
                    /\ UNCHANGED repairing
                    /\ isolation_queue' = pushed.heap
                    /\ last' = Step("handle_warning", component, "none",
                                    <<warning_request(event)>>, ~pushed.ok, <<>>,
                                    <<"put">>)

\* The exception ends the thread.
except_ExceptionUncaught(thread) == "returned"

\* "except Exception as e: logging.error(...)" at the end of the try in the
\* loops of process_events, process_registry_issues and
\* process_isolation_queue: where the thread goes on after an exception.
except_Exception(thread) == "while"

Goto(thread, location) == pc' = [pc EXCEPT ![thread] = location]

\* attempt_repair returns to handle_warning (lines 206-210): a success returns
\* at once, a failure is counted and stamped with the time the warning was
\* taken. What validate_service_registry found is on the registry queue; the
\* model offers that outcome while the registry queue is shorter than capacity.
handle_warning_returns(attempt, capacity) ==
    /\ pc["process_events"] = "handle"
    /\ repairing # NoRepair
    /\ LET component == repairing[1].event.component
           current_time == repairing[1].current_time
       IN  /\ attempt \in attempt_repair(component)
           /\ Len(registry_queue) + Len(attempt.put) <= capacity
           /\ registry_queue' = registry_queue \o attempt.put
           /\ retry_registry' = record_attempt(retry_registry, component,
                                               current_time, attempt.result)
           /\ last' = Step("handle_warning", component,
                           IF attempt.result THEN "ok" ELSE "failed",
                           <<>>, attempt.raised, <<>>, <<"attempt_repair">>)
           /\ window_start' =
                  IF ~attempt.result /\ retry_registry[component].count = 0
                  THEN (component :> current_time) @@ window_start
                  ELSE window_start
    /\ repairing' = NoRepair
    /\ Goto("process_events", "while")
    /\ UNCHANGED <<now, isolation_queue, component_dependencies, cascade,
                   is_running, hWaitStop, event_log, handling, processing, event_queue, isolating, reading>>

\* Every outcome an adapter can have.
Attempts ==
    {Attempt(result, raised, put) :
        result \in BOOLEAN, raised \in BOOLEAN,
        put \in {<<>>} \cup {<<missing_binary(name)>> : name \in {"a", "b", "c"}}}

handle_warning_return(capacity) ==
    \E attempt \in Attempts : handle_warning_returns(attempt, capacity)

----------------------------------------------------------------------------
(* handle_error: one put per affected component, in the set's iteration order *)

\* The tuple handle_error puts for comp.
error_request(origin, message, comp) ==
    <<PriorityHighest,
      Item(comp, <<"Cascading error from", origin, message>>, "isolate")>>

\* The orders in which "for comp in affected_components" can visit a set.
Orderings(S) ==
    {order \in [1..Cardinality(S) -> S] : \A i, j \in DOMAIN order :
                                              i # j => order[i] # order[j]}

\* handle_error up to its for loop: the affected set and its iteration order.
handle_error_begin(event) ==
    LET affected == get_affected_components(component_dependencies, event.component)
    IN  \E order \in Orderings(affected) :
            /\ cascade' = [origin |-> event.component, message |-> event.message,
                           affected |-> affected, todo |-> order, done |-> <<>>,
                           raised |-> FALSE,
                           calls |-> <<"get_affected_components">>]
            /\ last' = Step("handle_error", event.component, "none", <<>>, FALSE,
                            <<>>, <<"get_affected_components">>)
            /\ UNCHANGED <<retry_registry, isolation_queue, window_start, repairing>>

\* One iteration of the for loop. A put that raises ends the loop: the
\* exception leaves handle_error and is logged by process_events.
handle_error_put(capacity) ==
    /\ pc["process_events"] = "handle"
    /\ cascade.todo # <<>>
    /\ Len(isolation_queue) < capacity
    /\ LET comp == Head(cascade.todo)
           entry == error_request(cascade.origin, cascade.message, comp)
           pushed == heappush(isolation_queue, entry)
       IN  /\ isolation_queue' = pushed.heap
           /\ cascade' = [cascade EXCEPT
                  !.todo = IF pushed.ok THEN Tail(cascade.todo) ELSE <<>>,
                  !.done = Append(cascade.done, comp),
                  !.raised = ~pushed.ok,
                  !.calls = Append(cascade.calls, "put")]
           /\ last' = Step("handle_error", cascade.origin, "none", <<entry>>,
                           ~pushed.ok, <<>>, <<"put">>)
           /\ Goto("process_events",
                   IF ~pushed.ok THEN except_Exception("process_events")
                   ELSE IF Tail(cascade.todo) = <<>> THEN "while"
                   ELSE "handle")
    /\ UNCHANGED <<now, retry_registry, component_dependencies, repairing,
                   window_start, is_running, hWaitStop, event_log, handling, processing, event_queue,
                   registry_queue, isolating, reading>>

\* Every event takes the warning branch.
is_warningAlways(event) == TRUE

\* if event['event_type'] == win32evtlog.EVENTLOG_WARNING_TYPE
is_warning(event) == event.event_type = "warning"

\* The body of process_events' loop for the event it got, up to the first call
\* that waits (attempt_repair) or the first put of handle_error's loop; and
\* where the thread stands then: in the handler, back at the loop test, or in
\* the except clause after a put of handle_warning that raised.
handle_event(event, capacity) ==
    /\ IF is_warning(event)
       THEN handle_warning(event, capacity) /\ UNCHANGED cascade
       ELSE handle_error_begin(event)
    /\ Goto("process_events",
            IF last'.raised THEN except_Exception("process_events")
            ELSE IF cascade'.todo # <<>> \/ repairing' # NoRepair THEN "handle"
            ELSE "while")

\* process_events: one event taken from the event queue and dispatched, the
\* loop test having found is_running true.
process_events(event, capacity) ==
    /\ pc["process_events"] = "while"
    /\ handle_event(event, capacity)
    /\ UNCHANGED <<now, component_dependencies, is_running, hWaitStop, event_log, handling, processing,
                   event_queue, registry_queue, isolating, reading>>

----------------------------------------------------------------------------
(* process_registry_issues: handle_missing_binary / handle_missing_driver *)

binary_request(issue) ==
    <<PriorityHighest,
      Item(component_id("service:", issue.service), <<"Missing binary", issue.path>>,
           "isolate")>>

driver_request(issue) ==
    <<PriorityHighest,
      Item(component_id("driver:", issue.service), <<"Missing driver", issue.path>>,
           "reinstall")>>

\* Issues as validate_service_registry / check_driver_class enqueue them; the
\* services named are those of the components "service:a" and "driver:b".
RegistryIssues ==
    {missing_binary("a"),
     [type |-> "driver_missing", service |-> "b", path |-> "p"]}

handle_missing_binary(issue, capacity) ==
    LET pushed == heappush(isolation_queue, binary_request(issue))
    IN  /\ Len(isolation_queue) < capacity
        /\ isolation_queue' = pushed.heap
        /\ last' = Step("handle_missing_binary", component_id("service:", issue.service), "none",
                        <<binary_request(issue)>>, ~pushed.ok, <<>>,
                        <<"notify_user", "put">>)

\* The user is told only once the driver is quarantined.
handle_missing_driverQuietFailure(issue, capacity) ==
    \E quarantined \in BOOLEAN :
        IF quarantined
        THEN LET pushed == heappush(isolation_queue, driver_request(issue))
             IN  /\ Len(isolation_queue) < capacity
                 /\ isolation_queue' = pushed.heap
                 /\ last' = Step("handle_missing_driver", component_id("driver:", issue.service),
                                 "none", <<driver_request(issue)>>, ~pushed.ok, <<>>,
                                 <<"quarantine_driver", "notify_user", "put">>)
        ELSE /\ last' = Step("handle_missing_driver", component_id("driver:", issue.service),
                             "none", <<>>, TRUE, <<>>,
                             <<"quarantine_driver">>)
             /\ UNCHANGED isolation_queue

\* quarantine_driver raises (no put) or returns (put); the exception of either
\* is caught and logged by handle_missing_driver itself.
handle_missing_driver(issue, capacity) ==
    \E quarantined \in BOOLEAN :
        IF quarantined
        THEN LET pushed == heappush(isolation_queue, driver_request(issue))
             IN  /\ Len(isolation_queue) < capacity
                 /\ isolation_queue' = pushed.heap
                 /\ last' = Step("handle_missing_driver", component_id("driver:", issue.service),
                                 "none", <<driver_request(issue)>>, ~pushed.ok, <<>>,
                                 <<"notify_user", "quarantine_driver", "put">>)
        ELSE /\ last' = Step("handle_missing_driver", component_id("driver:", issue.service),
                             "none", <<>>, TRUE, <<>>,
                             <<"notify_user", "quarantine_driver">>)
             /\ UNCHANGED isolation_queue

\* The body of process_registry_issues' loop for the issue it got, and where
\* the thread stands then: an exception that leaves handle_missing_binary is
\* caught by the loop.
handle_issue(issue, capacity) ==
    /\ IF issue.type = "missing_binary"
       THEN handle_missing_binary(issue, capacity)
       ELSE handle_missing_driver(issue, capacity)
    /\ Goto("process_registry_issues",
            IF last'.raised /\ last'.op = "handle_missing_binary"
            THEN except_Exception("process_registry_issues")
            ELSE "while")

\* process_registry_issues: one issue taken from the registry queue and
\* dispatched, the loop test having found is_running true.
process_registry_issues(issue, capacity) ==
    /\ pc["process_registry_issues"] = "while"
    /\ handle_issue(issue, capacity)
    /\ UNCHANGED <<now, retry_registry, component_dependencies, cascade, repairing,
                   window_start, is_running, hWaitStop, event_log, handling, processing, event_queue,
                   registry_queue, isolating, reading>>

----------------------------------------------------------------------------
(* process_isolation_queue: the get, and the isolation of what it returned *)

\* A component of no known kind is isolated as a service.
isolation_adapterDefaultService(component) ==
    IF startswith(component, "driver:") THEN <<"isolate_driver">>
    ELSE IF startswith(component, "dcom:") THEN <<"isolate_dcom">>
    ELSE <<"isolate_service">>

\* The adapter the component's prefix selects, if any.
isolation_adapter(component) ==
    IF startswith(component, "service:") THEN <<"isolate_service">>
    ELSE IF startswith(component, "driver:") THEN <<"isolate_driver">>
    ELSE IF startswith(component, "dcom:") THEN <<"isolate_dcom">>
    ELSE <<>>

\* What the adapter of a component can do: isolate it, or fail and log its own
\* exception. A component of no known kind has no adapter to fail.
isolation_outcomes(component) ==
    IF isolation_adapter(component) = <<>> THEN {TRUE} ELSE BOOLEAN

\* self.isolation_queue.get(timeout=1) on a queue that is not empty: the
\* request it returns is the one the thread goes on to isolate; a get that
\* raises TypeError in its comparisons is caught by the loop.
isolation_queue_get ==
    /\ isolation_queue # <<>>
    /\ LET popped == heappop(isolation_queue)
       IN  /\ isolation_queue' = popped.heap
           /\ isolating' = popped.item
           /\ last' = IF popped.ok
                      THEN Step("process_isolation_queue",
                                popped.item[1][2].component, "none", <<>>, FALSE,
                                popped.item, <<"get">>)
                      ELSE Step("process_isolation_queue", "", "none", <<>>, TRUE,
                                <<>>, <<"get">>)
           /\ Goto("process_isolation_queue",
                   IF popped.ok THEN "isolate"
                   ELSE except_Exception("process_isolation_queue"))
    /\ UNCHANGED <<now, retry_registry, component_dependencies, cascade, repairing,
                   window_start, is_running, hWaitStop, event_log, handling, processing, event_queue,
                   registry_queue, reading>>

\* process_isolation_queue: the get of one pass, the loop test having found
\* is_running true. (A get on an empty queue raises queue.Empty after the
\* timeout and the loop continues: no state changes.)
process_isolation_queue ==
    /\ pc["process_isolation_queue"] = "while"
    /\ isolation_queue_get

\* The rest of the pass: the adapter of the component's kind, which isolates
\* the component or fails (it logs its own exceptions), then notify_user.
\* last holds the calls of the whole pass.
process_isolation_queue_isolate ==
    /\ pc["process_isolation_queue"] = "isolate"
    /\ isolating # <<>>
    /\ isolating' = <<>>
    /\ \E isolated \in isolation_outcomes(isolating[1][2].component) :
           last' = Step("process_isolation_queue", isolating[1][2].component,
                        "none", <<>>, ~isolated, isolating,
                        <<"get">> \o isolation_adapter(isolating[1][2].component)
                            \o <<"notify_user">>)
    /\ Goto("process_isolation_queue", "while")
    /\ UNCHANGED <<now, retry_registry, isolation_queue, component_dependencies,
                   cascade, repairing, window_start, is_running, hWaitStop, event_log, handling, processing,
                   event_queue, registry_queue, reading>>

----------------------------------------------------------------------------
(* The clock *)

Tick ==
    /\ now < MaxTime
    /\ now' = now + 1
    /\ UNCHANGED <<retry_registry, isolation_queue, component_dependencies, cascade,
                   repairing, window_start, last, service_vars>>

----------------------------------------------------------------------------
(* The service's threads: SvcDoRun, SvcStop and the five loops *)

\* The threads SvcDoRun starts, in the order it starts them.
Threads ==
    <<"monitor_event_logs", "monitor_registry", "process_events",
      "process_registry_issues", "process_isolation_queue">>

\* What the handlers read and write.
handler_vars ==
    <<now, retry_registry, isolation_queue, component_dependencies, cascade,
      repairing, window_start, last>>

\* SvcStop, called once by the service control manager.
SvcStop ==
    /\ pc["SvcDoRun"] # "raised"
    /\ is_running
    /\ is_running' = FALSE
    /\ hWaitStop' = TRUE
    /\ UNCHANGED <<handler_vars, pc, event_log, handling, processing, event_queue, registry_queue,
                   isolating, reading>>

\* while self.is_running, in SvcDoRun
SvcDoRun_while == IF is_running THEN "wait" ELSE "returned"

\* SvcDoRun: it starts the threads one by one, then waits on hWaitStop for a
\* second at a time while is_running holds, then returns. A wait that finds the
\* auto-reset event signalled resets it; one that does not times out.
SvcDoRun ==
    /\ \/ /\ pc["SvcDoRun"] = "start"
          /\ LET unstarted == {i \in DOMAIN Threads : pc[Threads[i]] = "unstarted"}
                 next == CHOOSE i \in unstarted : \A j \in unstarted : i <= j
             IN  pc' = [pc EXCEPT ![Threads[next]] = "while",
                                  !["SvcDoRun"] = IF unstarted = {next}
                                                  THEN "while" ELSE "start"]
          /\ UNCHANGED hWaitStop
       \/ /\ pc["SvcDoRun"] = "while"
          /\ Goto("SvcDoRun", SvcDoRun_while)
          /\ UNCHANGED hWaitStop
       \/ /\ pc["SvcDoRun"] = "wait"
          /\ Goto("SvcDoRun", "while")
          /\ hWaitStop' = FALSE
    /\ UNCHANGED <<handler_vars, is_running, event_log, handling, processing, event_queue, registry_queue,
                   isolating, reading>>

\* The program (lines 584-590) once SvcDoRun has returned: the dispatcher
\* returns, the module ends and the interpreter exits. The five threads are
\* daemon threads (line 575) that nobody joins: each that has not returned from
\* its function ends where it stands.
__main__ ==
    /\ pc["SvcDoRun"] = "returned"
    /\ \E thread \in DOMAIN pc : pc[thread] \notin {"returned", "abandoned"}
    /\ pc' = [thread \in DOMAIN pc |->
                 IF pc[thread] = "returned" THEN "returned" ELSE "abandoned"]
    /\ UNCHANGED <<handler_vars, is_running, hWaitStop, event_log, handling, processing,
                   event_queue, registry_queue, isolating, reading>>

\* "while self.is_running:" at the head of a thread's loop: into the body at
\* location, or out of the function.
while_is_running(thread, location) ==
    /\ pc[thread] = "while"
    /\ Goto(thread, IF is_running THEN location ELSE "returned")

\* self.event_queue = queue.Queue(): no maxsize is given, and the maxsize of a
\* Queue is then 0, which stands for no limit.
event_queue_maxsize == 0

\* Queue.put waits while the queue is full, which is 0 < maxsize <= qsize().
full(queue, maxsize) == 0 < maxsize /\ maxsize <= Len(queue)

\* monitor_event_logs: a step of its loop. After the loop test it reads the
\* log (an exception of OpenEventLog or ReadEventLog goes to the wait of the
\* except clause), then visits the records one by one and puts every relevant
\* one, processed, on the event queue (an exception ends the pass; the model
\* offers the put while the event queue is shorter than capacity), and then
\* waits on hWaitStop, 5 or 10 seconds at most.
monitor_event_logs(capacity) ==
    /\ \/ /\ while_is_running("monitor_event_logs", "read")
          /\ UNCHANGED <<event_queue, hWaitStop, reading>>
       \/ /\ pc["monitor_event_logs"] = "read"
          /\ \E raised \in BOOLEAN :
                IF raised
                THEN Goto("monitor_event_logs", "wait") /\ UNCHANGED reading
                ELSE Goto("monitor_event_logs", "for") /\ reading' = event_log
          /\ UNCHANGED <<event_queue, hWaitStop>>
       \/ /\ pc["monitor_event_logs"] = "for"
          /\ reading # <<>>
          /\ \E raised \in BOOLEAN :
                IF raised
                THEN /\ Goto("monitor_event_logs", "wait")
                     /\ reading' = <<>>
                     /\ UNCHANGED event_queue
                ELSE /\ UNCHANGED pc
                     /\ reading' = Tail(reading)
                     /\ IF is_relevant_event(Head(reading))
                        THEN /\ ~full(event_queue, event_queue_maxsize)
                             /\ Len(event_queue) < capacity
                             /\ event_queue' =
                                    Append(event_queue, process_event(Head(reading)))
                        ELSE UNCHANGED event_queue
          /\ UNCHANGED hWaitStop
       \/ /\ pc["monitor_event_logs"] = "for"
          /\ reading = <<>>
          /\ Goto("monitor_event_logs", "wait")
          /\ UNCHANGED <<event_queue, hWaitStop, reading>>
       \/ /\ pc["monitor_event_logs"] = "wait"
          /\ Goto("monitor_event_logs", "while")
          /\ hWaitStop' = FALSE
          /\ UNCHANGED <<event_queue, reading>>
    /\ UNCHANGED <<handler_vars, is_running, event_log, handling, processing, registry_queue, isolating>>

\* monitor_registry: a step of its loop. After the loop test the scans put the
\* issues they find on the registry queue; the pass ends in a wait on hWaitStop
\* of 30 seconds at most or, if a scan raised, goes straight back to the loop
\* test.
monitor_registry(issues, capacity) ==
    /\ \/ /\ while_is_running("monitor_registry", "scan")
          /\ UNCHANGED <<registry_queue, hWaitStop>>
       \/ /\ pc["monitor_registry"] = "scan"
          /\ \E found \in {<<>>} \cup {<<issue>> : issue \in issues} :
                /\ Len(registry_queue) + Len(found) <= capacity
                /\ registry_queue' = registry_queue \o found
          /\ \E raised \in BOOLEAN :
                Goto("monitor_registry", IF raised THEN "while" ELSE "wait")
          /\ UNCHANGED hWaitStop
       \/ /\ pc["monitor_registry"] = "wait"
          /\ Goto("monitor_registry", "while")
          /\ hWaitStop' = FALSE
          /\ UNCHANGED registry_queue
    /\ UNCHANGED <<handler_vars, is_running, event_log, handling, processing, event_queue, isolating,
                   reading>>

\* The most puts the handler of an event makes: handle_warning makes one, once
\* the attempts are used up, and none before, whatever the dependency map;
\* handle_error makes one per affected component.
puts_of(event) ==
    IF is_warning(event) THEN 1
    ELSE Cardinality(get_affected_components(component_dependencies,
                                             event.component))

\* The puts on the isolation queue that the handlers under way can still make:
\* those of the event in hand, of the cascade and of the issue in hand.
puts_under_way ==
    (IF processing = <<>> THEN 0 ELSE puts_of(processing[1]))
        + Len(cascade.todo) + Len(handling)

\* The isolation queue has room for every put the event can lead to, beside
\* the puts under way.
room_for_event(event, capacity) ==
    Len(isolation_queue) + puts_under_way + puts_of(event) <= capacity

\* The process_events thread at its loop test, at its get and at the dispatch
\* of the event the get returned. A get that finds the queue empty raises
\* queue.Empty after a second and the loop continues; the model lets the
\* thread wait in the same way while the isolation queue has no room for the
\* puts of the event at the head. The get takes the event off the queue; the
\* handler it is dispatched to runs up to its first call that waits.
process_events_loop(capacity) ==
    /\ \/ /\ while_is_running("process_events", "get")
          /\ UNCHANGED <<event_queue, processing, retry_registry, isolation_queue,
                         cascade, repairing, window_start, last>>
       \/ /\ pc["process_events"] = "get"
          /\ IF event_queue = <<>> THEN TRUE
             ELSE ~room_for_event(Head(event_queue), capacity)
          /\ Goto("process_events", "while")
          /\ UNCHANGED <<event_queue, processing, retry_registry, isolation_queue,
                         cascade, repairing, window_start, last>>
       \/ /\ pc["process_events"] = "get"
          /\ event_queue # <<>>
          /\ room_for_event(Head(event_queue), capacity)
          /\ event_queue' = Tail(event_queue)
          /\ processing' = <<Head(event_queue)>>
          /\ Goto("process_events", "dispatch")
          /\ UNCHANGED <<retry_registry, isolation_queue, cascade, repairing,
                         window_start, last>>
       \/ /\ pc["process_events"] = "dispatch"
          /\ processing # <<>>
          /\ processing' = <<>>
          /\ handle_event(processing[1], capacity + 1)
          /\ UNCHANGED event_queue
    /\ UNCHANGED <<now, component_dependencies, is_running, hWaitStop, event_log,
                   handling, registry_queue, isolating, reading>>

\* The process_registry_issues thread at its loop test, at its get and in the
\* handler of the issue the get returned: the get takes the issue off the
\* registry queue, and the handler, after notify_user and quarantine_driver
\* have returned, puts its request. The model lets the get time out while the
\* isolation queue has no room left beside the puts under way.
process_registry_issues_loop(capacity) ==
    /\ \/ /\ while_is_running("process_registry_issues", "get")
          /\ UNCHANGED <<registry_queue, isolation_queue, last, handling>>
       \/ /\ pc["process_registry_issues"] = "get"
          /\ \/ registry_queue = <<>>
             \/ Len(isolation_queue) + puts_under_way >= capacity
          /\ Goto("process_registry_issues", "while")
          /\ UNCHANGED <<registry_queue, isolation_queue, last, handling>>
       \/ /\ pc["process_registry_issues"] = "get"
          /\ registry_queue # <<>>
          /\ Len(isolation_queue) + puts_under_way < capacity
          /\ registry_queue' = Tail(registry_queue)
          /\ handling' = <<Head(registry_queue)>>
          /\ Goto("process_registry_issues", "handle")
          /\ UNCHANGED <<isolation_queue, last>>
       \/ /\ pc["process_registry_issues"] = "handle"
          /\ handling # <<>>
          /\ handle_issue(handling[1], capacity + 1)
          /\ handling' = <<>>
          /\ UNCHANGED registry_queue
    /\ UNCHANGED <<now, retry_registry, component_dependencies, cascade, repairing,
                   window_start, is_running, hWaitStop, event_log, processing,
                   event_queue, isolating, reading>>

\* The process_isolation_queue thread at its loop test and at its get.
process_isolation_queue_loop ==
    \/ /\ while_is_running("process_isolation_queue", "get")
       /\ UNCHANGED <<handler_vars, is_running, hWaitStop, event_log, handling, processing, event_queue,
                      registry_queue, isolating, reading>>
    \/ /\ pc["process_isolation_queue"] = "get"
       /\ isolation_queue = <<>>
       /\ Goto("process_isolation_queue", "while")
       /\ UNCHANGED <<handler_vars, is_running, hWaitStop, event_log, handling, processing, event_queue,
                      registry_queue, isolating, reading>>
    \/ /\ pc["process_isolation_queue"] = "get"
       /\ isolation_queue_get

----------------------------------------------------------------------------
(* The service: every handler, within one clock tick, on a small queue *)

\* dependencies.json as load_configurations may find it: absent (the default
\* {}), or a map in which service:a affects driver:b.
Configurations == {<<>>, ("service:a" :> <<"driver:b">>)}

\* What monitor_event_logs puts on the event queue: here, warnings and errors
\* about service:a (driver:b is reached through the dependency map and through
\* the registry issues).
Events == {Event(type, "service:a", Message("service:a")) : type \in {"warning", "error"}}

\* SvcDoRun has started its threads and waits; every thread is at its loop test.
Running ==
    [thread \in {Threads[i] : i \in DOMAIN Threads} \cup {"SvcDoRun"} |->
         IF thread = "SvcDoRun" THEN "wait" ELSE "while"]

\* setup_logging: logging.basicConfig is given both filename and handlers,
\* which raises ValueError unless the root logger has a handler already (then
\* basicConfig does nothing). Whether it has is up to the hosting process.
setup_logging(root_handlers) == root_handlers

\* __init__ has raised: there is no service object, and nothing runs.
Raised ==
    [thread \in DOMAIN Running |-> IF thread = "SvcDoRun" THEN "raised" ELSE "unstarted"]

\* __init__ (lines 32-51): the attributes it sets, then setup_logging, then
\* load_configurations, with log the System log of the machine. Where it
\* returns the threads stand at running, where it raises at Raised with the
\* configuration not loaded.
__init__(configurations, log, running) ==
    /\ now = 0
    /\ retry_registry = <<>>
    /\ isolation_queue = <<>>
    /\ cascade = NoCascade
    /\ repairing = NoRepair
    /\ window_start = <<>>
    /\ last = NoStep
    /\ is_running = TRUE
    /\ hWaitStop = FALSE
    /\ event_queue = <<>>
    /\ registry_queue = <<>>
    /\ isolating = <<>>
    /\ handling = <<>>
    /\ processing = <<>>
    /\ reading = <<>>
    /\ event_log \in log
    /\ \E root_handlers \in BOOLEAN :
           IF setup_logging(root_handlers)
           THEN /\ component_dependencies \in configurations
                /\ pc = running
           ELSE /\ component_dependencies = <<>>
                /\ pc = Raised

\* The handlers' state after __init__, while the service runs.
InitWith(configurations) == __init__(configurations, {<<>>}, Running)

Init == InitWith(Configurations)

Next ==
    \/ \E event \in Events : process_events(event, MaxQueue)
    \/ handle_warning_return(MaxIssues)
    \/ handle_error_put(MaxQueue)
    \/ \E issue \in RegistryIssues : process_registry_issues(issue, MaxQueue)
    \/ process_isolation_queue
    \/ process_isolation_queue_isolate

Spec == Init /\ [][Next]_vars

----------------------------------------------------------------------------
(* The retry ledger: warnings only, while the clock advances *)

WarningEvents ==
    {Event("warning", component, Message(component)) :
         component \in {"service:a", "unknown"}}

InitRetry == InitWith({<<>>})

NextRetry ==
    \/ Tick
    \/ \E event \in WarningEvents : process_events(event, MaxQueue)
    \/ handle_warning_return(MaxIssues)
    \/ process_isolation_queue
    \/ process_isolation_queue_isolate

SpecRetry == InitRetry /\ [][NextRetry]_vars

----------------------------------------------------------------------------
(* The cascade: error events over every small dependency map *)

CascadeComponents == {"service:a", "driver:b", "dcom:c"}

\* The lists of distinct components of length at most n.
Lists(n) ==
    UNION {{list \in [1..k -> CascadeComponents] :
                \A i, j \in 1..k : i # j => list[i] # list[j]} : k \in 0..n}

\* dependencies.json: any subset of the components as keys, each with a list.
DependencyMaps ==
    UNION {[keys -> Lists(MaxDeps)] : keys \in SUBSET CascadeComponents}

\* The maps range over every renaming of the components, so one origin stands
\* for all three.
ErrorEvents == {Event("error", "service:a", Message("service:a"))}

\* Room for the requests of one whole cascade.
CascadeCapacity == Cardinality(CascadeComponents)

InitCascade == InitWith(DependencyMaps)

NextCascade ==
    \/ \E event \in ErrorEvents : process_events(event, CascadeCapacity)
    \/ handle_error_put(CascadeCapacity)

SpecCascade == InitCascade /\ [][NextCascade]_vars

----------------------------------------------------------------------------
(* The priority queue: warnings and errors within one clock tick *)

QueueEvents ==
    {Event(type, component, Message(component)) :
         type \in {"warning", "error"}, component \in {"service:a", "driver:b"}}

InitQueue == InitWith({<<>>})

NextQueue ==
    \/ \E event \in QueueEvents : process_events(event, MaxHeap)
    \/ handle_warning_return(MaxIssues)
    \/ handle_error_put(MaxHeap)
    \/ process_isolation_queue
    \/ process_isolation_queue_isolate

SpecQueue == InitQueue /\ [][NextQueue]_vars

----------------------------------------------------------------------------
(* Who is notified: events, registry issues and the drain within one clock tick *)

\* Length at which the model stops the isolation queue in SpecNotify.
NotifyCapacity == MaxIssues + 1

InitNotify == InitWith({<<>>})

NextNotify ==
    \/ \E event \in Events : process_events(event, NotifyCapacity)
    \/ handle_warning_return(MaxIssues)
    \/ handle_error_put(NotifyCapacity)
    \/ \E issue \in RegistryIssues : process_registry_issues(issue, NotifyCapacity)
    \/ process_isolation_queue
    \/ process_isolation_queue_isolate

SpecNotify == InitNotify /\ [][NextNotify]_vars

----------------------------------------------------------------------------
(* The drain's dispatch: requests of both actions and of no known kind *)

\* Errors about a driver and about a component of no known kind: their
\* requests carry the action isolate, the driver_missing issue's reinstall.
DispatchEvents ==
    {Event("error", component, Message(component)) :
         component \in {"driver:b", "unknown"}}

DispatchIssues == {issue \in RegistryIssues : issue.type = "driver_missing"}

InitDispatch == InitWith({<<>>})

NextDispatch ==
    \/ \E event \in DispatchEvents : process_events(event, MaxQueue)
    \/ handle_error_put(MaxQueue)
    \/ \E issue \in DispatchIssues : process_registry_issues(issue, MaxQueue)
    \/ process_isolation_queue
    \/ process_isolation_queue_isolate

SpecDispatch == InitDispatch /\ [][NextDispatch]_vars

----------------------------------------------------------------------------
(* The classifier: monitor_event_logs over every short message *)

\* The messages of at most MaxWords words.
Messages == UNION {[1..n -> Words] : n \in 0..MaxWords}

\* The System log holds one record of any type, from a source that is
\* configured for warnings and errors, for warnings only, or not at all, with
\* an id that is not configured.
ClassifyLogs ==
    {<<EventLogRecord(type, source, 0, message)>> :
         type \in {"warning", "error", "information"},
         source \in {"Service Control Manager", "Disk", "Other"},
         message \in Messages}

\* The threads run and the log is there to be read.
InitClassify == __init__({<<>>}, ClassifyLogs, Running)

NextClassify == monitor_event_logs(MaxEvents)

SpecClassify == InitClassify /\ [][NextClassify]_vars

----------------------------------------------------------------------------
(* The service from start to stop: SvcDoRun, its five threads and SvcStop *)

\* The machines the service runs on. On one the System log holds one record,
\* an error of service "a" that the default patterns make relevant, and the
\* binary of service "a" is missing; on the other the log holds two records,
\* warnings about service "a" whose messages differ, and the registry is
\* intact.
ServiceLogs ==
    {<<EventLogRecord("error", "Service Control Manager", 7000,
                      <<"service", "\"a\"">>)>>,
     <<EventLogRecord("warning", "Service Control Manager", 1001,
                      <<"service", "\"a\"">>),
       EventLogRecord("warning", "Service Control Manager", 1001,
                      <<"Service", "\"a\"">>)>>}

\* What the registry scans of the machine can find.
ServiceIssues ==
    IF \E i \in DOMAIN event_log : event_log[i].EventType = "error"
    THEN {issue \in RegistryIssues : issue.type = "missing_binary"}
    ELSE {}

\* Room on the registry queue for what validate_service_registry finds after a
\* repair: it finds nothing where the registry is intact.
validate_service_registry(issues) == IF ServiceIssues = {} THEN 0 ELSE issues

\* Length at which the model stops the threads from adding to the isolation
\* queue in SpecService.
ServiceCapacity == MaxEvents

\* Length at which the model stops each of the three queues in SpecShutdown.
ShutdownCapacity == MaxIssues

\* The clock of the service stops at ServiceTime.
ServiceTick == now < ServiceTime /\ Tick

\* The state after __init__: SvcDoRun has not started a thread yet.
InitService ==
    __init__({<<>>}, ServiceLogs,
             [thread \in DOMAIN Running |->
                  IF thread = "SvcDoRun" THEN "start" ELSE "unstarted"])

ServiceStep(events, issues, capacity) ==
    \/ SvcDoRun
    \/ SvcStop
    \/ __main__
    \/ monitor_event_logs(events)
    \/ monitor_registry(ServiceIssues, issues)
    \/ process_events_loop(capacity)
    \/ handle_warning_return(validate_service_registry(issues))
    \/ handle_error_put(capacity + 1)
    \/ process_registry_issues_loop(capacity)
    \/ process_isolation_queue_loop
    \/ process_isolation_queue_isolate
    \/ ServiceTick

NextService == ServiceStep(ShutdownCapacity, ShutdownCapacity, ServiceCapacity)

SpecService == InitService /\ [][NextService]_vars

\* While the program runs the scheduler lets every thread that can take a step
\* take one eventually, and the calls a thread makes return; once SvcDoRun has
\* returned the program ends. SvcStop is up to the service control manager.
Fairness ==
    /\ WF_vars(SvcDoRun)
    /\ WF_vars(__main__)
    /\ WF_vars(monitor_event_logs(ShutdownCapacity))
    /\ WF_vars(monitor_registry(ServiceIssues, ShutdownCapacity))
    /\ WF_vars(process_events_loop(ShutdownCapacity))
    /\ WF_vars(handle_warning_return(validate_service_registry(ShutdownCapacity)))
    /\ WF_vars(handle_error_put(ShutdownCapacity + 1))
    /\ WF_vars(process_registry_issues_loop(ShutdownCapacity))
    /\ WF_vars(process_isolation_queue_loop)
    /\ WF_vars(process_isolation_queue_isolate)

NextShutdown == ServiceStep(ShutdownCapacity, ShutdownCapacity, ShutdownCapacity)

SpecShutdown == InitService /\ [][NextShutdown]_vars /\ Fairness

----------------------------------------------------------------------------
(* Claims about the retry ledger (SpecRetry) *)

\* The failed attempts a warning arriving now finds in the component's current
\* window: none without a record, none once the window has elapsed.
FailedInWindow(component) ==
    IF component \notin DOMAIN retry_registry THEN 0
    ELSE IF now > retry_registry[component].last_attempt + RetryWindow THEN 0
    ELSE retry_registry[component].count

\* The step called attempt_repair: it is inside the call, or the call returned.
RepairAttempted(step) == step.repair \in {"pending", "ok", "failed"}

\* How often entry occurs in the heap list.
Count(entry, heap) == Cardinality({i \in DOMAIN heap : heap[i] = entry})

\* heap1 holds what heap0 holds and one more occurrence of entry.
GainsExactly(heap0, heap1, entry) ==
    /\ Len(heap1) = Len(heap0) + 1
    /\ Count(entry, heap1) = Count(entry, heap0) + 1
    /\ \A i \in DOMAIN heap0 : Count(heap0[i], heap1) >= Count(heap0[i], heap0)

\* C1: retry budget. A warning that finds fewer than 3 failed attempts in the
\* window (the 1st, 2nd and 3rd of a run of failures) calls attempt_repair, and
\* when the call returns a failure the count is one more than the warning
\* found; a warning that finds 3 attempts no repair; a warning that arrives
\* more than an hour after last_attempt is the 1st again: the count is 0 before
\* it is read and a repair is attempted.
RetryBudget ==
    /\ [][\A event \in WarningEvents :
             process_events(event, MaxQueue) =>
                 LET c == event.component
                     found == FailedInWindow(c)
                 IN  /\ retry_registry'[c].count = found
                     /\ found < 3 => /\ last'.repair = "pending"
                                     /\ repairing' # NoRepair
                     /\ found >= 3 => /\ ~RepairAttempted(last')
                                      /\ repairing' = NoRepair
                     /\ (/\ c \in DOMAIN retry_registry
                         /\ now - retry_registry[c].last_attempt > RetryWindow)
                        => /\ retry_registry'[c].count = 0
                           /\ last'.repair = "pending"]_vars
    /\ [][handle_warning_return(MaxIssues) =>
             LET c == repairing[1].event.component
             IN  /\ retry_registry[c].count < 3
                 /\ last'.repair \in {"ok", "failed"}
                 /\ retry_registry'[c].count =
                        retry_registry[c].count
                            + IF last'.repair = "failed" THEN 1 ELSE 0]_vars

\* C1 witness: the 4th warning of a run of failures inside the window was
\* refused a repair.
RetryBudgetWitness ==
    /\ last.op = "handle_warning"
    /\ last.component = "service:a"
    /\ ~RepairAttempted(last)
    /\ retry_registry["service:a"].count = 3
    /\ now <= retry_registry["service:a"].last_attempt + RetryWindow

\* C2 (as claimed): after a warning whose repair succeeded, the component's
\* count is 0 or it has no record.
SuccessClearsRecord ==
    (last.op = "handle_warning" /\ last.repair = "ok")
        => \/ last.component \notin DOMAIN retry_registry
           \/ retry_registry[last.component].count = 0

\* C3 (as claimed): a warning arriving more than an hour after the first failed
\* attempt of the current window starts a fresh window: the count is reset and
\* a repair is attempted.
WindowFromFirstAttempt ==
    [][\A event \in WarningEvents :
          (/\ process_events(event, MaxQueue)
           /\ event.component \in DOMAIN retry_registry
           /\ retry_registry[event.component].count >= 1
           /\ now > window_start[event.component] + RetryWindow)
          => /\ last'.repair = "pending"
             /\ retry_registry'[event.component].count = 0]_vars

\* C3 (amended): the window is measured from last_attempt. A warning arriving
\* more than an hour after last_attempt starts a fresh window (count reset,
\* last_attempt now, repair attempted); one arriving within the hour keeps the
\* record it found, however old the first failed attempt of the window is; and
\* the attempt that fails makes the count one more, stamped with the time the
\* warning arrived.
WindowFromLastAttempt ==
    /\ [][\A event \in WarningEvents :
             (/\ process_events(event, MaxQueue)
              /\ event.component \in DOMAIN retry_registry)
             => LET c == event.component
                    record == retry_registry[c]
                IN  IF now > record.last_attempt + RetryWindow
                    THEN /\ last'.repair = "pending"
                         /\ retry_registry'[c] = RetryRecord(0, now)
                    ELSE retry_registry'[c] = record]_vars
    /\ [][handle_warning_return(MaxIssues) =>
             LET c == repairing[1].event.component
                 record == retry_registry[c]
             IN  retry_registry'[c] =
                     IF last'.repair = "failed"
                     THEN RetryRecord(record.count + 1, repairing[1].current_time)
                     ELSE record]_vars

\* C3 witness: a third failed attempt was counted in a window whose first failed
\* attempt was more than an hour earlier.
WindowFromLastAttemptWitness ==
    /\ last.op = "handle_warning"
    /\ last.repair = "failed"
    /\ last.component = "service:a"
    /\ retry_registry["service:a"].count = 3
    /\ retry_registry["service:a"].last_attempt = now
    /\ now > window_start["service:a"] + RetryWindow

\* C4: a warning enqueues an isolation request exactly when it finds the budget
\* exhausted: then no repair is attempted and the queue gains exactly one
\* entry, (1, component, isolate); otherwise attempt_repair is called and the
\* queue is left as it was, by the call and by its return.
EscalationOnlyOnExhaustion ==
    /\ [][\A event \in WarningEvents :
             process_events(event, MaxQueue) =>
                 IF FailedInWindow(event.component) >= 3
                 THEN /\ ~RepairAttempted(last')
                      /\ repairing' = NoRepair
                      /\ \E i \in DOMAIN isolation_queue' :
                             /\ isolation_queue'[i][1] = 1
                             /\ isolation_queue'[i][2].component = event.component
                             /\ isolation_queue'[i][2].action = "isolate"
                             /\ GainsExactly(isolation_queue, isolation_queue',
                                             isolation_queue'[i])
                 ELSE /\ last'.repair = "pending"
                      /\ isolation_queue' = isolation_queue]_vars
    /\ [][handle_warning_return(MaxIssues) =>
             /\ last'.put = <<>>
             /\ isolation_queue' = isolation_queue]_vars

\* C4 witness: an exhausted warning put its request behind an outstanding one
\* of another component; the put raised and the request is in the queue.
EscalationWitness ==
    /\ last.op = "handle_warning"
    /\ last.put # <<>>
    /\ last.raised
    /\ Len(isolation_queue) = 2
    /\ Count(last.put[1], isolation_queue) = 1

----------------------------------------------------------------------------
(* Claims about the cascade (SpecCascade) *)

\* handle_error has left its for loop, by its end or by an exception.
CascadeEnded == cascade.origin # "" /\ cascade.todo = <<>>

\* C5 (as claimed): an error event on X has one request put for each component
\* of affectedBy(X), and for no other.
ErrorCascadeComplete ==
    CascadeEnded =>
        /\ Len(cascade.done) = Cardinality(cascade.affected)
        /\ {cascade.done[i] : i \in DOMAIN cascade.done} = cascade.affected

\* C6 (as claimed): every put of an error event comes after the one recovery
\* point taken for that event.
CheckpointBeforeIsolation ==
    \A i \in DOMAIN cascade.calls :
        cascade.calls[i] = "put" =>
            /\ \E j \in 1..(i - 1) : cascade.calls[j] = "create_recovery_point"
            /\ Cardinality({j \in DOMAIN cascade.calls :
                                cascade.calls[j] = "create_recovery_point"}) = 1

\* The stored edges of a dependency map.
Targets(deps, component) ==
    {deps_get(deps, component)[i] : i \in DOMAIN deps_get(deps, component)}

Closed(deps, S) == \A component \in S : Targets(deps, component) \subseteq S

\* What zero or more stored edges reach from component: the least closed set
\* that holds it.
Reachable(deps, component) ==
    LET nodes == CascadeComponents \cup {component}
    IN  CHOOSE S \in SUBSET nodes :
            /\ component \in S
            /\ Closed(deps, S)
            /\ \A T \in SUBSET nodes :
                   (component \in T /\ Closed(deps, T)) => S \subseteq T

\* C10: for every dependency map, cyclic ones included, and every origin,
\* also one with no entry, get_affected_components returns exactly the
\* components reachable over stored edges, the origin among them; and that is
\* the set handle_error walks. (The map never changes after load, so the
\* function is compared on the loaded map, before the first event.)
CascadeClosure ==
    /\ cascade = NoCascade =>
           \A component \in CascadeComponents \cup {"unknown"} :
               /\ component \in
                      get_affected_components(component_dependencies, component)
               /\ get_affected_components(component_dependencies, component)
                      = Reachable(component_dependencies, component)
    /\ cascade.origin # "" =>
           /\ cascade.origin \in cascade.affected
           /\ cascade.affected =
                  Reachable(component_dependencies, cascade.origin)

\* C10 witness: handle_error walked a -> b -> c -> a, a chain closed into a cycle.
CascadeClosureWitness ==
    /\ cascade.origin = "service:a"
    /\ component_dependencies =
           ("service:a" :> <<"driver:b">>) @@ ("driver:b" :> <<"dcom:c">>)
               @@ ("dcom:c" :> <<"service:a">>)
    /\ cascade.affected = {"service:a", "driver:b", "dcom:c"}

----------------------------------------------------------------------------
(* Claims about the isolation queue (Spec, SpecQueue) *)

\* C7 (as claimed): no two entries of the queue have the same component and
\* the same action.
NoDuplicateRequests ==
    \A i, j \in DOMAIN isolation_queue :
        (/\ i # j
         /\ isolation_queue[i][2].component = isolation_queue[j][2].component
         /\ isolation_queue[i][2].action = isolation_queue[j][2].action)
        => FALSE

\* C8 (as claimed): a get that has just returned a priority-1 request has
\* left no priority-0 request behind in the queue.
PriorityOrder ==
    (/\ last.op = "process_isolation_queue"
     /\ last.calls = <<"get">>
     /\ last.got # <<>>
     /\ last.got[1][1] = PriorityMedium)
    => \A i \in DOMAIN isolation_queue : isolation_queue[i][1] # PriorityHighest

\* C9 (as claimed): a put never fails, whatever is outstanding.
EnqueueAlwaysSucceeds == last.put # <<>> => ~last.raised

----------------------------------------------------------------------------
(* Claims about the drain (Spec) *)

\* How often a call occurs in a step's list of calls.
Calls(name, calls) == Cardinality({i \in DOMAIN calls : calls[i] = name})

Adapters(calls) ==
    Calls("isolate_service", calls) + Calls("isolate_driver", calls)
        + Calls("isolate_dcom", calls)

\* C11 (as claimed): a pass of process_isolation_queue whose get takes a
\* request out of the queue takes one and goes on to isolate it; the rest of
\* the pass calls at most one isolation adapter, notifies the user exactly
\* once and puts nothing back.
DequeuedOnceNotified ==
    /\ [][(process_isolation_queue /\ Len(isolation_queue') < Len(isolation_queue))
             => /\ Len(isolation_queue') = Len(isolation_queue) - 1
                /\ isolating' # <<>>
                /\ pc'["process_isolation_queue"] = "isolate"]_vars
    /\ [][process_isolation_queue_isolate =>
             /\ Adapters(last'.calls) <= 1
             /\ Calls("notify_user", last'.calls) = 1
             /\ isolation_queue' = isolation_queue]_vars

\* The most recent handler step is the end of a pass of the drain that
\* isolated the component of the request it got.
Isolated(component) ==
    /\ last.op = "process_isolation_queue"
    /\ last.got # <<>>
    /\ last.got[1][2].component = component
    /\ Calls("notify_user", last.calls) = 1

\* C12 (as claimed), for the event or request that comes next after the
\* isolation of a component: a warning for that component attempts no repair
\* and puts no request, an error cascade puts no request for it, and the drain
\* does not get another request for it.
IsolatedIsTerminal ==
    [][\A component \in {"service:a", "driver:b"} :
          Isolated(component) =>
              /\ \A event \in Events :
                     (process_events(event, MaxQueue) /\ event.component = component)
                         => (~RepairAttempted(last') /\ last'.put = <<>>)
              /\ handle_error_put(MaxQueue)
                     => last'.put[1][2].component # component
              /\ process_isolation_queue
                     => (last'.got = <<>> \/ last'.got[1][2].component # component)]_vars

----------------------------------------------------------------------------
(* Claims about the service's threads (SpecService, SpecShutdown) *)

\* SvcDoRun and its five threads have all returned.
AllReturned == \A thread \in DOMAIN pc : pc[thread] = "returned"

\* C13 (as claimed): once SvcStop has cleared is_running, SvcDoRun and each of
\* the five loops returns eventually, whatever is left in the queues; a loop
\* that tests is_running after that returns, with the three queues as they
\* were, instead of going into another pass, and a loop that has returned
\* stays so.
CooperativeShutdown ==
    /\ ~is_running ~> AllReturned
    /\ [][\A thread \in DOMAIN pc :
             (~is_running /\ pc[thread] = "while" /\ pc'[thread] # "while") =>
                 /\ pc'[thread] \in {"returned", "abandoned"}
                 /\ UNCHANGED <<event_queue, registry_queue, isolation_queue>>]_vars
    /\ [][\A thread \in DOMAIN pc :
             pc[thread] = "returned" => pc'[thread] = "returned"]_vars

\* C14 (as claimed): SvcDoRun has not returned while process_isolation_queue
\* holds a request it got and has not finished isolating and notifying.
NoMidActionCancellation ==
    ~(pc["SvcDoRun"] = "returned" /\ isolating # <<>>)

\* C15 (as claimed): the event queue is configured with a capacity and no put
\* of monitor_event_logs takes it beyond that capacity; a relevant record read
\* while the queue is full is passed over and the pass goes on.
EventQueueBounded ==
    [][/\ Len(event_queue') > Len(event_queue) =>
              /\ 0 < event_queue_maxsize
              /\ Len(event_queue') <= event_queue_maxsize
       /\ (/\ pc["monitor_event_logs"] = "for"
           /\ reading # <<>>
           /\ is_relevant_event(Head(reading))
           /\ full(event_queue, event_queue_maxsize)
           /\ reading' # reading) =>
              /\ event_queue' = event_queue
              /\ pc'["monitor_event_logs"] = "for"]_vars

\* The threads whose loops handle events, issues and requests.
ProcessingThreads ==
    {"process_events", "process_registry_issues", "process_isolation_queue"}

\* C16: a processing loop returns only once is_running is false; and a put on
\* the isolation queue that raises while an event, a warning or an error, or
\* an issue is handled, a repair adapter that raises inside attempt_repair, a
\* get that raises, and an isolation adapter that fails each leave their
\* thread at its loop test, outside any handler, ready to take the next item.
ErrorContainment ==
    /\ [](\A thread \in ProcessingThreads : pc[thread] = "returned" => ~is_running)
    /\ [][last'.raised =>
             /\ (pc["process_events"] = "dispatch"
                     /\ process_events_loop(ServiceCapacity)) =>
                    (/\ pc'["process_events"] = "while"
                     /\ processing' = <<>>
                     /\ repairing' = NoRepair
                     /\ cascade'.todo = <<>>)
             /\ handle_warning_return(validate_service_registry(ShutdownCapacity)) =>
                    (/\ pc'["process_events"] = "while"
                     /\ processing' = <<>>
                     /\ repairing' = NoRepair)
             /\ handle_error_put(ServiceCapacity + 1) =>
                    (pc'["process_events"] = "while" /\ cascade'.todo = <<>>)
             /\ (pc["process_registry_issues"] = "handle"
                     /\ process_registry_issues_loop(ServiceCapacity)) =>
                    (pc'["process_registry_issues"] = "while" /\ handling' = <<>>)
             /\ (isolation_queue' # isolation_queue /\ process_isolation_queue_loop) =>
                    (pc'["process_isolation_queue"] = "while" /\ isolating' = <<>>)
             /\ process_isolation_queue_isolate =>
                    (/\ pc'["process_isolation_queue"] = "while"
                     /\ isolating' = <<>>
                     /\ Calls("notify_user", last'.calls) = 1)]_vars

\* C16 witness: while the service runs, the put of handle_warning has raised
\* TypeError behind the request of another refused warning; the thread of
\* process_events is at its loop test and the next event is queued.
ErrorContainmentWitness ==
    /\ is_running
    /\ last.op = "handle_warning"
    /\ last.raised
    /\ last.put # <<>>
    /\ pc["process_events"] = "while"
    /\ processing = <<>>
    /\ event_queue # <<>>

----------------------------------------------------------------------------
(* More claims about the retry ledger (SpecRetry, Spec) *)

\* The exception reached the except clause of the adapter, which returns False;
\* one caught inside validate_service_registry or secure_registry_key did not.
adapter_raised(attempt) == attempt.raised /\ ~attempt.result

\* C17: a warning for C that finds attempts remaining and whose repair adapter
\* raises, or whose component is of no known kind, is handled to the end: the
\* attempt is recorded as failed, C's count is one more than the warning found,
\* last_attempt is the time the warning arrived, every other record is as it
\* was, nothing is put on the isolation queue and process_events is back at
\* its loop test.
AdapterErrorCounts ==
    /\ [][\A event \in WarningEvents :
             (/\ process_events(event, MaxQueue)
              /\ FailedInWindow(event.component) < MaxRetries)
             => /\ repairing' = <<[event |-> event, current_time |-> now]>>
                /\ retry_registry'[event.component].count =
                       FailedInWindow(event.component)]_vars
    /\ [][\A attempt \in Attempts :
             (/\ handle_warning_returns(attempt, MaxIssues)
              /\ (adapter_raised(attempt)
                     \/ repairing[1].event.component = "unknown"))
             => LET c == repairing[1].event.component
                IN  /\ last'.repair = "failed"
                    /\ last'.calls = <<"attempt_repair">>
                    /\ pc'["process_events"] = "while"
                    /\ retry_registry'[c] =
                           RetryRecord(retry_registry[c].count + 1,
                                       repairing[1].current_time)
                    /\ DOMAIN retry_registry' = DOMAIN retry_registry
                    /\ \A other \in DOMAIN retry_registry \ {c} :
                           retry_registry'[other] = retry_registry[other]
                    /\ isolation_queue' = isolation_queue]_vars

\* C17 witness: the repair adapter of service:a has raised on the second
\* attempt of a window, at a later time than the first, the clock has moved on
\* while attempt_repair ran, and unknown has a record of its own.
AdapterErrorCountsWitness ==
    /\ last.op = "handle_warning"
    /\ last.component = "service:a"
    /\ last.repair = "failed"
    /\ last.raised
    /\ retry_registry["service:a"].count = 2
    /\ window_start["service:a"] < retry_registry["service:a"].last_attempt
    /\ retry_registry["service:a"].last_attempt < now
    /\ "unknown" \in DOMAIN retry_registry
    /\ retry_registry["unknown"].count = 1

\* What C18 says of the handlers, one step at a time: the rest of a pass of
\* the drain that got a request notifies the user, and so does every registry
\* issue, a missing driver also when quarantine_driver fails and nothing is
\* put; a warning whose repair fails does not.
NotifiesAsClaimed ==
    /\ process_isolation_queue_isolate =>
           /\ last'.got # <<>>
           /\ Calls("notify_user", last'.calls) = 1
    /\ \A issue \in RegistryIssues :
           process_registry_issues(issue, NotifyCapacity) =>
               /\ Calls("notify_user", last'.calls) = 1
               /\ last'.calls[1] = "notify_user"
    /\ (handle_warning_return(MaxIssues) /\ last'.repair = "failed") =>
           Calls("notify_user", last'.calls) = 0

\* C18 (as claimed): the handlers notify as above, and the step that comes
\* next after a failed repair of a component notifies the user about that
\* component only if it is the drain isolating it.
NotificationPolicy ==
    [][/\ NotifiesAsClaimed
       /\ (/\ last.op = "handle_warning"
           /\ last.repair = "failed"
           /\ last'.component = last.component
           /\ Calls("notify_user", last'.calls) > 0)
          => last'.op = "process_isolation_queue"]_vars

\* C18 (amended): the handlers notify as above; handling an event, whatever
\* its outcome, notifies nobody, and neither does the get of the drain, so
\* that the notifications about a component are those of the drain isolating
\* it and those of the registry issues found for it, which do not wait for an
\* isolation.
NotificationSources ==
    [][/\ NotifiesAsClaimed
       /\ \A event \in Events :
              process_events(event, NotifyCapacity) => Calls("notify_user", last'.calls) = 0
       /\ handle_warning_return(MaxIssues) => Calls("notify_user", last'.calls) = 0
       /\ handle_error_put(NotifyCapacity) => Calls("notify_user", last'.calls) = 0
       /\ process_isolation_queue => Calls("notify_user", last'.calls) = 0
       /\ (last' # last /\ Calls("notify_user", last'.calls) > 0) =>
              last'.op \in {"process_isolation_queue", "handle_missing_binary",
                            "handle_missing_driver"}]_vars

\* C18 witness: with one failed repair of service:a on record and no request
\* for it put yet, the user is notified that its binary is missing.
NotificationSourcesWitness ==
    /\ last.op = "handle_missing_binary"
    /\ last.component = "service:a"
    /\ last.calls[1] = "notify_user"
    /\ "service:a" \in DOMAIN retry_registry
    /\ retry_registry["service:a"].count = 1
    /\ isolation_queue = last.put

\* C19: error events, the puts of a cascade, registry issues and the drain
\* leave retry_registry as it is; a record is created or changed only by the
\* handling of a warning for its component, when it arrives or when its repair
\* returns, and none is ever deleted; so only components that had a warning
\* handled have a record.
RecordsOnlyByWarnings ==
    /\ [][/\ \A event \in Events :
                 (process_events(event, NotifyCapacity)
                      /\ event.event_type # "warning")
                     => UNCHANGED retry_registry
          /\ handle_error_put(NotifyCapacity) => UNCHANGED retry_registry
          /\ \A issue \in RegistryIssues :
                 process_registry_issues(issue, NotifyCapacity)
                     => UNCHANGED retry_registry
          /\ process_isolation_queue => UNCHANGED retry_registry
          /\ process_isolation_queue_isolate => UNCHANGED retry_registry
          /\ DOMAIN retry_registry \subseteq DOMAIN retry_registry'
          /\ \A c \in DOMAIN retry_registry' :
                 (c \notin DOMAIN retry_registry \/ retry_registry'[c] # retry_registry[c])
                     => \/ \E event \in Events :
                               /\ event.event_type = "warning"
                               /\ event.component = c
                               /\ process_events(event, NotifyCapacity)
                        \/ /\ handle_warning_return(MaxIssues)
                           /\ repairing[1].event.event_type = "warning"
                           /\ repairing[1].event.component = c
                           /\ c \in DOMAIN retry_registry]_vars
    /\ [](DOMAIN retry_registry \subseteq
              {event.component : event \in {e \in Events : e.event_type = "warning"}})

\* C19 witness: service:a has two failed attempts on record; since then the
\* request of a missing driver for driver:b, which has no record, was drained.
RecordsOnlyByWarningsWitness ==
    /\ last.op = "process_isolation_queue"
    /\ last.got # <<>>
    /\ last.got[1][2].component = "driver:b"
    /\ DOMAIN retry_registry = {"service:a"}
    /\ retry_registry["service:a"].count = 2

----------------------------------------------------------------------------
(* Claims about the classifier (SpecClassify) *)

\* The message has one of the words.
Mentions(message, words) == \E i \in DOMAIN message : message[i] \in words

\* The category C20 gives an event of a severity and a message: the words of
\* the model that hold DCOM or CLSID as written, those that hold "driver" in
\* any case, and those that hold "service" in any case.
Category(severity, message) ==
    IF severity = "error"
    THEN IF Mentions(message, {"DCOM", "CLSID"}) THEN "critical_com"
         ELSE IF Mentions(message, {"Driver", "drivers"}) THEN "critical_driver"
         ELSE "system_error"
    ELSE IF Mentions(message, {"service", "Service"}) THEN "service_warning"
         ELSE "hardware_warning"

\* C20: every event monitor_event_logs has put is an error or a warning of the
\* log, and its category is the one the first matching rule gives: for an
\* error critical_com on a DCOM or CLSID token, driver or not, else
\* critical_driver on a driver, else system_error; for a warning
\* service_warning on "service", else hardware_warning. The category depends
\* on severity and message alone.
ClassifiedByFirstMatch ==
    /\ \A i \in DOMAIN event_queue :
           /\ event_queue[i].event_type \in {"error", "warning"}
           /\ event_queue[i].category =
                  Category(event_queue[i].event_type, event_queue[i].message)
    /\ \A type \in {"error", "warning"} :
           classify_event(EventLogRecord(type, event_log[1].SourceName, 0,
                                         event_log[1].message),
                          event_log[1].message)
               = Category(type, event_log[1].message)

\* C20 witness: an error that names both DCOM and a driver is queued as
\* critical_com.
ClassifiedByFirstMatchWitness ==
    /\ event_queue # <<>>
    /\ event_queue[1].event_type = "error"
    /\ event_queue[1].message = <<"Driver", "DCOM">>
    /\ event_queue[1].category = "critical_com"

----------------------------------------------------------------------------
(* C21 *)

\* C21: every retry record's count is an integer in 0..3 in every reachable
\* state; a record whose count is 3 keeps its count and its last_attempt in
\* every step except a warning for its component that arrives more than an
\* hour after last_attempt, so the warnings refused a repair in between leave
\* last_attempt where the 3rd failure put it.
CountStaysAtLimit ==
    /\ [](\A c \in DOMAIN retry_registry :
              /\ retry_registry[c].count \in 0..MaxRetries
              /\ retry_registry[c].last_attempt \in 0..now)
    /\ [][\A c \in DOMAIN retry_registry :
              retry_registry[c].count = MaxRetries =>
                  \/ /\ c \in DOMAIN retry_registry'
                     /\ retry_registry'[c] = retry_registry[c]
                  \/ /\ \E event \in WarningEvents :
                            /\ event.component = c
                            /\ process_events(event, MaxQueue)
                     /\ now - retry_registry[c].last_attempt > RetryWindow]_vars

\* C21 witness: a warning for service:a was refused a repair some time after
\* the 3rd failure, and the record still has count 3 and the 3rd failure's time.
CountStaysAtLimitWitness ==
    /\ last.op = "handle_warning"
    /\ last.component = "service:a"
    /\ last.put = <<warning_request(Event("warning", "service:a", Message("service:a")))>>
    /\ retry_registry["service:a"].count = MaxRetries
    /\ retry_registry["service:a"].last_attempt = 0
    /\ now = RetryWindow

----------------------------------------------------------------------------
(* C22 *)

\* C22: the calls of a pass of process_isolation_queue that got a request
\* depend on the prefix of its component id only, not on its action: a request
\* for a driver calls isolate_driver and then notify_user whether its action is
\* reinstall or isolate, and a request whose id has none of the prefixes
\* service:, driver:, dcom: calls no adapter and then notify_user.
DispatchOnKindOnly ==
    [][process_isolation_queue_isolate =>
          LET item == isolating[1][2]
          IN  /\ item.action \in {"isolate", "reinstall"}
              /\ last'.got = isolating
              /\ startswith(item.component, "driver:") =>
                     last'.calls = <<"get", "isolate_driver", "notify_user">>
              /\ startswith(item.component, "service:") =>
                     last'.calls = <<"get", "isolate_service", "notify_user">>
              /\ startswith(item.component, "dcom:") =>
                     last'.calls = <<"get", "isolate_dcom", "notify_user">>
              /\ (\A prefix \in {"service:", "driver:", "dcom:"} :
                      ~startswith(item.component, prefix)) =>
                     last'.calls = <<"get", "notify_user">>]_vars

\* C22 witness: the drain got the reinstall request of a driver_missing issue
\* and called the driver-removal adapter, as it does for an isolate request.
DispatchOnKindOnlyWitness ==
    /\ last.op = "process_isolation_queue"
    /\ last.got # <<>>
    /\ last.got[1][2].component = "driver:b"
    /\ last.got[1][2].action = "reinstall"
    /\ Calls("isolate_driver", last.calls) = 1
    /\ Calls("notify_user", last.calls) = 1

====
